---------------------------- MODULE Spec2Model ----------------------------
(***************************************************************************)
(* EmailHelper (src/utils/email_helper.py) against the mail servers it     *)
(* talks to.  The helper keeps no state between calls; the state is the    *)
(* IMAP mailbox (folders of messages addressed by message sequence         *)
(* number, with \Seen and \Deleted flags) and the record of the call that  *)
(* has just returned: its arguments, its result, what the servers saw of   *)
(* it and the sessions it left open.  Calls are synchronous: one returns   *)
(* and its result is consumed (Forget) before the next starts.             *)
(*                                                                         *)
(* Server behaviour is that of RFC 3501 as seen through imaplib:           *)
(*   - SEARCH answers message sequence numbers, oldest first;              *)
(*   - EXPUNGE and CLOSE remove every \Deleted message of the selected     *)
(*     folder and renumber the rest;                                       *)
(*   - FETCH (RFC822) sets \Seen;                                          *)
(*   - OR takes exactly two search keys, juxtaposed keys are ANDed;        *)
(*   - a command that raises may or may not have taken effect.             *)
(* Message identifiers are the decimal strings of sequence numbers; they   *)
(* are modelled by the numbers themselves.                                 *)
(***************************************************************************)
EXTENDS Integers, Sequences, FiniteSets, TLC

VARIABLES
    server,      \* the mailbox: folder -> sequence of messages, oldest first
    nextUid,     \* identity of the next message to arrive
    last,        \* the call that has just returned (NoCall between calls)
    deletedIds,  \* history: folder -> ids of the messages successful deletes removed
    leftover     \* history: messages a delete_emails that failed in its loop flagged

vars == <<server, nextUid, last, deletedIds, leftover>>

(* ------------------------------ bounds -------------------------------- *)

\* messages ever delivered to the account
MaxMsgs == 2
\* length of the id list handed to mark_as_read / delete_emails
MaxIds == 2
\* largest limit handed to read_emails
MaxLimit == 1
\* length of the cc and of the bcc list handed to send_email
MaxCc == 1
\* parts of a message handed to _get_email_body
MaxParts == 2

\* default of read_emails' limit, which search_emails relies on
DefaultLimit == 10

Folders == {"INBOX", "Sent"}
Senders == {"alice", "bob"}

\* a subject or a body is the set of words it contains
Texts == {{"hello"}, {"hello", "invoice"}}

Ids == 1..MaxMsgs

(* ------------------------------ helpers ------------------------------- *)

Max(a, b) == IF a > b THEN a ELSE b
Min(a, b) == IF a < b THEN a ELSE b

Range(s) == {s[i] : i \in 1..Len(s)}

SeqsUpTo(S, n) == UNION {[1..k -> S] : k \in 0..n}

\* the lists of at most n distinct elements of S
ListsUpTo(S, n) == {s \in SeqsUpTo(S, n) : \A i, j \in 1..Len(s) : s[i] = s[j] => i = j}

Reverse(s) == [i \in 1..Len(s) |-> s[Len(s) + 1 - i]]

\* Optional[T]: <<>> is None, <<x>> is a passed value
None == <<>>
Some(x) == <<x>>

\* Python truthiness of an Optional[str] holding an address: None and "" are false
TruthyStr(o) == o # None /\ o[1] # ""

\* Python truthiness of an Optional[List[str]]: None and [] are false
TruthyList(o) == o # None /\ o[1] # <<>>

\* Python truthiness of an Optional[str] holding search criteria; the criteria
\* string is its sequence of tokens, the empty string the empty sequence
TruthyCriteria(o) == o # None /\ o[1] # <<>>

\* Python's s[start:] for any integer start
SliceFrom(s, start) ==
    LET n == Len(s)
        b == IF start < 0 THEN Max(n + start, 0) ELSE Min(start, n)
    IN  [i \in 1..(n - b) |-> s[b + i]]

(* --------------------------- the IMAP server -------------------------- *)

Uids(box) == {box[i].uid : i \in 1..Len(box)}

\* the end of the search key that starts at token i
RECURSIVE KeyEnd(_, _)
KeyEnd(toks, i) ==
    IF i > Len(toks) THEN i
    ELSE IF toks[i] = "OR" THEN KeyEnd(toks, KeyEnd(toks, i + 1))
    ELSE IF toks[i] \in {"SUBJECT", "BODY", "FROM"} THEN i + 2
    ELSE i + 1

RECURSIVE MatchKey(_, _, _)
MatchKey(m, toks, i) ==
    CASE toks[i] = "ALL" -> TRUE
      [] toks[i] = "UNSEEN" -> ~m.seen
      [] toks[i] = "SEEN" -> m.seen
      [] toks[i] = "DELETED" -> m.deleted
      [] toks[i] = "SUBJECT" -> toks[i + 1] \in m.subject
      [] toks[i] = "BODY" -> toks[i + 1] \in m.body
      [] toks[i] = "FROM" -> toks[i + 1] = m.from
      [] toks[i] = "OR" ->
            MatchKey(m, toks, i + 1) \/ MatchKey(m, toks, KeyEnd(toks, i + 1))

\* juxtaposed search keys are ANDed
RECURSIVE MatchFrom(_, _, _)
MatchFrom(m, toks, i) ==
    IF i > Len(toks) THEN TRUE
    ELSE MatchKey(m, toks, i) /\ MatchFrom(m, toks, KeyEnd(toks, i))

\* SEARCH: the sequence numbers of the matching messages, ascending
RECURSIVE SearchFrom(_, _, _)
SearchFrom(box, toks, i) ==
    IF i > Len(box) THEN <<>>
    ELSE (IF MatchFrom(box[i], toks, 1) THEN <<i>> ELSE <<>>)
            \o SearchFrom(box, toks, i + 1)

ImapSearch(box, toks) == SearchFrom(box, toks, 1)

\* STORE +FLAGS on the first n ids of the list; an id that names no message
\* is answered NO, which imaplib does not raise
StoreSeen(box, ids, n) ==
    [i \in 1..Len(box) |->
        IF \E j \in 1..n : ids[j] = i THEN [box[i] EXCEPT !.seen = TRUE] ELSE box[i]]

StoreDeleted(box, ids, n) ==
    [i \in 1..Len(box) |->
        IF \E j \in 1..n : ids[j] = i THEN [box[i] EXCEPT !.deleted = TRUE] ELSE box[i]]

\* EXPUNGE, and the implicit expunge of CLOSE
RECURSIVE Expunge(_)
Expunge(box) ==
    IF box = <<>> THEN <<>>
    ELSE (IF Head(box).deleted THEN <<>> ELSE <<Head(box)>>) \o Expunge(Tail(box))

(* ----------------------------- exceptions ----------------------------- *)

\* what a failing step raises: "auth" is smtplib.SMTPAuthenticationError,
\* "other" any other Exception (imaplib.IMAP4.error, smtplib.SMTPException,
\* OSError, ...)
SmtpExcAt(step) == IF step = "login" THEN {"auth", "other"} ELSE {"other"}
ImapExcAt(step) == {"other"}

\* the except clauses of each operation: does one of them catch exc
SendCatchesAuthOnly(exc) == exc = "auth"
SendCatches(exc) == exc = "auth" \/ exc \in {"auth", "other"}
ReadCatches(exc) == exc \in {"auth", "other"}
MarkCatches(exc) == exc \in {"auth", "other"}
DeleteCatches(exc) == exc \in {"auth", "other"}

(* ------------------------- the record of a call ------------------------ *)

\* A call that has returned: its arguments; fail/k/exc, the step that raised
\* and what it raised;
\* ok/emails/body, the value returned; raised, whether an exception reached
\* the caller; criteria/rcpt/headers, what the server received; open, the
\* sessions the call opened that are still open now that it has returned.
NoCall ==
    [op |-> "init", folder |-> "INBOX", ids |-> <<>>, limit |-> 0,
     unread |-> FALSE, raw |-> None, fail |-> "none", k |-> 0,
     exc |-> "none", ok |-> FALSE, emails |-> <<>>, raised |-> FALSE,
     criteria |-> <<>>, open |-> 0,
     keyword |-> "", in_subject |-> FALSE, in_body |-> FALSE, from_address |-> None,
     to |-> "", cc |-> None, bcc |-> None, rcpt |-> {},
     headers |-> [From |-> "", To |-> "", Subject |-> "", Cc |-> <<>>],
     msg |-> [multipart |-> FALSE, parts |-> <<>>], body |-> <<>>]

Idle == last.op = "init"

(* ----------------------------- read_emails ---------------------------- *)

CriteriaUnreadFirst(search_criteria, unread_only) ==
    IF unread_only THEN <<"UNSEEN">>
    ELSE IF TruthyCriteria(search_criteria) THEN search_criteria[1]
    ELSE <<"ALL">>

\* the filter sent to the server
Criteria(search_criteria, unread_only) ==
    IF TruthyCriteria(search_criteria) THEN search_criteria[1]
    ELSE IF unread_only THEN <<"UNSEEN">>
    ELSE <<"ALL">>

\* email_ids[-limit:] if len(email_ids) > limit else email_ids
Truncated(email_ids, limit) ==
    IF Len(email_ids) > limit THEN SliceFrom(email_ids, 0 - limit) ELSE email_ids

\* the ids fetched, in the order fetched
Latest(email_ids, limit) == Reverse(Truncated(email_ids, limit))

\* FETCH (RFC822) of the first n ids of the list sets their \Seen flag
Fetched(box, ids, n) ==
    [i \in 1..Len(box) |->
        IF \E j \in 1..n : ids[j] = i THEN [box[i] EXCEPT !.seen = TRUE] ELSE box[i]]

\* where a call can fail: <<step, index in the loop, did the failing command
\* take effect on the server>>
ReadOutcomes ==
    {<<s, 0, FALSE>> : s \in {"none", "connect", "login", "select", "search", "logout"}}
        \cup {<<"fetch", k, a>> : k \in 1..MaxMsgs, a \in BOOLEAN}
        \cup {<<"close", 0, a>> : a \in BOOLEAN}

\* a session is open from IMAP4_SSL(...) until logout() has returned
ImapOpen(fail) == IF fail \in {"none", "connect"} THEN 0 ELSE 1

\* the mailbox after the call
ReadBox(box, limit, unread_only, search_criteria, fail, k, applied) ==
    LET email_ids == Latest(ImapSearch(box, Criteria(search_criteria, unread_only)), limit)
        nfetch == CASE fail \in {"connect", "login", "select", "search"} -> 0
                    [] fail = "fetch" -> IF applied THEN k ELSE k - 1
                    [] OTHER -> Len(email_ids)
        box1 == Fetched(box, email_ids, nfetch)
        closed == fail \in {"none", "logout"} \/ (fail = "close" /\ applied)
    IN  IF closed THEN Expunge(box1) ELSE box1

\* the call as it returns
ReadCall(box, folder, limit, unread_only, search_criteria, fail, k, exc) ==
    LET criteria == Criteria(search_criteria, unread_only)
        email_ids == Latest(ImapSearch(box, criteria), limit)
        emails == [i \in 1..Len(email_ids) |->
                      [id |-> email_ids[i], uid |-> box[email_ids[i]].uid]]
    IN  [NoCall EXCEPT
            !.op = "read", !.folder = folder, !.limit = limit,
            !.unread = unread_only, !.raw = search_criteria,
            !.fail = fail, !.k = k, !.exc = IF fail = "none" THEN "none" ELSE exc,
            !.criteria = IF fail \in {"connect", "login", "select"}
                         THEN <<>> ELSE criteria,
            !.emails = IF fail = "none" THEN emails ELSE <<>>,
            !.raised = (fail # "none" /\ ~ReadCatches(exc)),
            !.open = ImapOpen(fail)]

ReadEmails(folder, limit, unread_only, search_criteria, fail, k, applied) ==
    LET box == server[folder]
    IN  /\ Idle
        /\ fail = "fetch" =>
              k <= Len(Latest(ImapSearch(box, Criteria(search_criteria, unread_only)), limit))
        /\ \E exc \in ImapExcAt(fail) :
              last' = ReadCall(box, folder, limit, unread_only, search_criteria,
                               fail, k, exc)
        /\ server' = [server EXCEPT ![folder] =
                          ReadBox(box, limit, unread_only, search_criteria, fail, k, applied)]
        /\ UNCHANGED nextUid

(* ----------------------------- search_emails -------------------------- *)

\* criteria_parts, each part a list of tokens
CriteriaParts(keyword, in_subject, in_body, from_address) ==
    (IF in_subject THEN << <<"SUBJECT", keyword>> >> ELSE <<>>)
        \o (IF in_body THEN << <<"BODY", keyword>> >> ELSE <<>>)
        \o (IF TruthyStr(from_address) THEN << <<"FROM", from_address[1]>> >> ELSE <<>>)

\* " ".join(parts)
RECURSIVE Join(_)
Join(parts) == IF parts = <<>> THEN <<>> ELSE Head(parts) \o Join(Tail(parts))

SearchCriteria(keyword, in_subject, in_body, from_address) ==
    LET criteria_parts == CriteriaParts(keyword, in_subject, in_body, from_address)
    IN  IF Len(criteria_parts) > 1 THEN <<"OR">> \o Join(criteria_parts)
        ELSE IF criteria_parts # <<>> THEN criteria_parts[1]
        ELSE <<"ALL">>

SearchEmails(keyword, folder, in_subject, in_body, from_address, fail, k, applied) ==
    LET box == server[folder]
        criteria == Some(SearchCriteria(keyword, in_subject, in_body, from_address))
    IN  /\ Idle
        /\ fail = "fetch" =>
              k <= Len(Latest(ImapSearch(box, Criteria(criteria, FALSE)), DefaultLimit))
        /\ \E exc \in ImapExcAt(fail) :
              last' = [ReadCall(box, folder, DefaultLimit, FALSE, criteria, fail, k, exc)
                          EXCEPT !.op = "search", !.keyword = keyword,
                                 !.in_subject = in_subject, !.in_body = in_body,
                                 !.from_address = from_address]
        /\ server' = [server EXCEPT ![folder] =
                          ReadBox(box, DefaultLimit, FALSE, criteria, fail, k, applied)]
        /\ UNCHANGED nextUid

(* ----------------------------- mark_as_read --------------------------- *)

MarkOutcomes ==
    {<<s, 0, FALSE>> : s \in {"none", "connect", "login", "select", "logout"}}
        \cup {<<"store", k, a>> : k \in 1..MaxIds, a \in BOOLEAN}
        \cup {<<"close", 0, a>> : a \in BOOLEAN}

MarkAsRead(email_ids, folder, fail, k, applied) ==
    LET box == server[folder]
        nstore == CASE fail \in {"connect", "login", "select"} -> 0
                    [] fail = "store" -> IF applied THEN k ELSE k - 1
                    [] OTHER -> Len(email_ids)
        box1 == StoreSeen(box, email_ids, nstore)
        closed == fail \in {"none", "logout"} \/ (fail = "close" /\ applied)
        box2 == IF closed THEN Expunge(box1) ELSE box1
    IN  /\ Idle
        /\ fail = "store" => k <= Len(email_ids)
        /\ \E exc \in ImapExcAt(fail) :
              last' = [NoCall EXCEPT
                          !.op = "mark", !.folder = folder, !.ids = email_ids,
                          !.fail = fail, !.k = k, !.exc = IF fail = "none" THEN "none" ELSE exc,
                          !.ok = (fail = "none"),
                          !.raised = (fail # "none" /\ ~MarkCatches(exc)),
                          !.open = ImapOpen(fail)]
        /\ server' = [server EXCEPT ![folder] = box2]
        /\ UNCHANGED nextUid

(* ----------------------------- delete_emails -------------------------- *)

DeleteOutcomes ==
    {<<s, 0, FALSE>> : s \in {"none", "connect", "login", "select", "close", "logout"}}
        \cup {<<"store", k, a>> : k \in 1..MaxIds, a \in BOOLEAN}
        \cup {<<"expunge", 0, a>> : a \in BOOLEAN}

\* the messages of box but those whose uid is in U
RECURSIVE Without(_, _)
Without(box, U) ==
    IF box = <<>> THEN <<>>
    ELSE (IF Head(box).uid \in U THEN <<>> ELSE <<Head(box)>>) \o Without(Tail(box), U)

DeleteBoxNoExpunge(box, email_ids, fail, k, applied) ==
    StoreDeleted(box, email_ids,
                 CASE fail \in {"connect", "login", "select"} -> 0
                   [] fail = "store" -> IF applied THEN k ELSE k - 1
                   [] OTHER -> Len(email_ids))

DeleteBoxScoped(box, email_ids, fail, k, applied) ==
    LET nstore == CASE fail \in {"connect", "login", "select"} -> 0
                    [] fail = "store" -> IF applied THEN k ELSE k - 1
                    [] OTHER -> Len(email_ids)
        box1 == StoreDeleted(box, email_ids, nstore)
        expunged == fail \in {"none", "close", "logout"}
                        \/ (fail = "expunge" /\ applied)
    IN  IF expunged
        THEN Without(box1, {box1[i].uid : i \in Range(email_ids) \cap (1..Len(box1))})
        ELSE box1

\* the mailbox after the call
DeleteBox(box, email_ids, fail, k, applied) ==
    LET nstore == CASE fail \in {"connect", "login", "select"} -> 0
                    [] fail = "store" -> IF applied THEN k ELSE k - 1
                    [] OTHER -> Len(email_ids)
        box1 == StoreDeleted(box, email_ids, nstore)
        expunged == fail \in {"none", "close", "logout"}
                        \/ (fail = "expunge" /\ applied)
    IN  IF expunged THEN Expunge(box1) ELSE box1

DeleteEmails(email_ids, folder, fail, k, applied) ==
    /\ Idle
    /\ fail = "store" => k <= Len(email_ids)
    /\ \E exc \in ImapExcAt(fail) :
          last' = [NoCall EXCEPT
                      !.op = "delete", !.folder = folder, !.ids = email_ids,
                      !.fail = fail, !.k = k, !.exc = IF fail = "none" THEN "none" ELSE exc,
                      !.ok = (fail = "none"),
                      !.raised = (fail # "none" /\ ~DeleteCatches(exc)),
                      !.open = ImapOpen(fail)]
    /\ server' = [server EXCEPT ![folder] =
                      DeleteBox(server[folder], email_ids, fail, k, applied)]
    /\ UNCHANGED nextUid

(* ------------------------------ send_email ---------------------------- *)

\* self.email_address
EmailAddress == "me@example.com"

Addresses == {"me@example.com", "a@example.com", "b@example.com"}

\* the message's headers; a Cc header is the list of its addresses, <<>> when
\* the header is not set
Headers(to_email, subject, cc) ==
    [From |-> EmailAddress, To |-> to_email, Subject |-> subject,
     Cc |-> IF TruthyList(cc) THEN cc[1] ELSE <<>>]

\* the addresses a reader of the message sees
HeaderAddresses(h) == {h.From, h.To} \cup Range(h.Cc)

RecipientsNoBcc(to_email, cc, bcc) ==
    <<to_email>> \o (IF TruthyList(cc) THEN cc[1] ELSE <<>>)

\* recipients: the envelope handed to send_message
Recipients(to_email, cc, bcc) ==
    <<to_email>> \o (IF TruthyList(cc) THEN cc[1] ELSE <<>>)
                 \o (IF TruthyList(bcc) THEN bcc[1] ELSE <<>>)

SendOutcomes == {"none", "connect", "starttls", "login", "send"}

\* "with smtplib.SMTP(...) as server": the session is closed on every way out
SmtpOpen(fail) == 0

SendEmail(to_email, subject, body, cc, bcc, html, fail) ==
    /\ Idle
    /\ \E exc \in SmtpExcAt(fail) :
          last' = [NoCall EXCEPT
                      !.op = "send", !.to = to_email, !.cc = cc, !.bcc = bcc,
                      !.fail = fail, !.exc = IF fail = "none" THEN "none" ELSE exc,
                      !.ok = (fail = "none"),
                      !.raised = (fail # "none" /\ ~SendCatches(exc)),
                      !.rcpt = IF fail = "none"
                               THEN Range(Recipients(to_email, cc, bcc)) ELSE {},
                      !.headers = IF fail = "none"
                                  THEN Headers(to_email, subject, cc)
                                  ELSE NoCall.headers,
                      !.open = SmtpOpen(fail)]
    /\ UNCHANGED <<server, nextUid>>

(* --------------------------- _get_email_body -------------------------- *)

\* A text is the sequence of its characters.
Hi == <<"H", "i">>
BHiThere == <<"<", "b", ">", "H", "i", "<", "/", "b", ">", " ", "t", "h", "e", "r", "e">>
Br == <<"<", "b", "r", ">">>
Padded == <<" ", "x", " ">>
Less == <<"a", "<", "b">>

Payloads == {<<>>, Hi, BHiThere, Br, Padded, Less}

ContentTypes == {"text/plain", "text/html", "image/png"}

\* str(part.get("Content-Disposition")): "None" when the header is absent
Dispositions == {"None", "attachment; filename=a.txt"}

\* "attachment" in content_disposition
HasAttachment(d) == d = "attachment; filename=a.txt"

Parts == [ctype : ContentTypes, disp : Dispositions, payload : Payloads]

\* the end of the match of '<[^<]+?>' that starts at i, 0 when there is none:
\* the nearest '>' at least two places on, with no '<' in between
TagEnd(s, i) ==
    LET ends == {j \in (i + 2)..Len(s) :
                    s[j] = ">" /\ \A t \in (i + 1)..(j - 1) : s[t] # "<"}
    IN  IF s[i] = "<" /\ ends # {} THEN CHOOSE j \in ends : \A e \in ends : j <= e
        ELSE 0

\* re.sub('<[^<]+?>', '', s): leftmost matches, none overlapping
RECURSIVE SubFrom(_, _)
SubFrom(s, i) ==
    IF i > Len(s) THEN <<>>
    ELSE IF TagEnd(s, i) # 0 THEN SubFrom(s, TagEnd(s, i) + 1)
    ELSE <<s[i]>> \o SubFrom(s, i + 1)

StripTags(s) == SubFrom(s, 1)

\* str.strip()
RECURSIVE LStrip(_)
LStrip(s) == IF s # <<>> /\ Head(s) = " " THEN LStrip(Tail(s)) ELSE s

PyStrip(s) == Reverse(LStrip(Reverse(LStrip(s))))

\* the loop over msg.walk(), from part i on, with the body found so far
RECURSIVE WalkFrom(_, _, _)
WalkFrom(parts, i, body) ==
    IF i > Len(parts) THEN body
    ELSE IF parts[i].ctype = "text/plain" /\ ~HasAttachment(parts[i].disp)
         THEN parts[i].payload
    ELSE IF parts[i].ctype = "text/html" /\ body = <<>>
         THEN WalkFrom(parts, i + 1, StripTags(parts[i].payload))
    ELSE WalkFrom(parts, i + 1, body)

GetEmailBody(msg) ==
    PyStrip(IF msg.multipart THEN WalkFrom(msg.parts, 1, <<>>)
            ELSE msg.parts[1].payload)

\* multipart messages have parts (walk() also yields the container, which
\* is neither text/plain nor text/html); any other message has one payload
Messages ==
    {[multipart |-> TRUE, parts |-> ps] : ps \in SeqsUpTo(Parts, MaxParts) \ {<<>>}}
        \cup {[multipart |-> FALSE, parts |-> <<p>>] : p \in Parts}

Decode(msg) ==
    /\ Idle
    /\ last' = [NoCall EXCEPT !.op = "decode", !.msg = msg, !.body = GetEmailBody(msg)]
    /\ UNCHANGED <<server, nextUid>>

(* ------------------------------ environment --------------------------- *)

\* a new message arrives in a folder (appended: the highest sequence number)
Deliver(folder, subject, body, from) ==
    /\ Idle
    /\ nextUid <= MaxMsgs
    /\ server' = [server EXCEPT ![folder] =
                      Append(@, [uid |-> nextUid, subject |-> subject, body |-> body,
                                 from |-> from, seen |-> FALSE, deleted |-> FALSE])]
    /\ nextUid' = nextUid + 1
    /\ UNCHANGED last

\* the caller has consumed the result of the call
Forget ==
    /\ ~Idle
    /\ last' = NoCall
    /\ UNCHANGED <<server, nextUid, deletedIds, leftover>>

(* ---------------------------- specifications -------------------------- *)

RawFilters == {None, Some(<<>>), Some(<<"SEEN">>)}

OptLists == {None} \cup {Some(l) : l \in ListsUpTo(Addresses, MaxCc)}

Init ==
    /\ server = [f \in Folders |-> <<>>]
    /\ nextUid = 1
    /\ last = NoCall
    /\ deletedIds = [f \in Folders |-> {}]
    /\ leftover = {}

\* uids whose \Deleted flag is set by this step
NewlyFlagged(f) ==
    {server'[f][i].uid : i \in {j \in 1..Len(server'[f]) :
        j <= Len(server[f]) /\ server'[f][j].deleted /\ ~server[f][j].deleted}}

DoRead ==
    /\ Idle
    /\ \E f \in Folders, limit \in 0..MaxLimit, u \in BOOLEAN, raw \in RawFilters,
          o \in ReadOutcomes :
          ReadEmails(f, limit, u, raw, o[1], o[2], o[3])
    /\ UNCHANGED <<deletedIds, leftover>>

DoSearch ==
    /\ Idle
    /\ \E f \in Folders, s \in BOOLEAN, b \in BOOLEAN, o \in ReadOutcomes :
          SearchEmails("hello", f, s, b, None, o[1], o[2], o[3])
    /\ UNCHANGED <<deletedIds, leftover>>

DoMark ==
    /\ Idle
    /\ \E ids \in ListsUpTo(Ids, MaxIds), f \in Folders, o \in MarkOutcomes :
          MarkAsRead(ids, f, o[1], o[2], o[3])
    /\ UNCHANGED <<deletedIds, leftover>>

DoDelete ==
    /\ Idle
    /\ \E ids \in ListsUpTo(Ids, MaxIds), f \in Folders, o \in DeleteOutcomes :
          /\ DeleteEmails(ids, f, o[1], o[2], o[3])
          /\ leftover' = IF o[1] = "store" THEN leftover \cup NewlyFlagged(f)
                         ELSE leftover
    /\ UNCHANGED deletedIds

DoSend ==
    /\ Idle
    /\ \E to \in Addresses, fail \in SendOutcomes :
          SendEmail(to, "hello", "hello", None, None, FALSE, fail)
    /\ UNCHANGED <<deletedIds, leftover>>

DoDeliver ==
    /\ Idle
    /\ \E f \in Folders : Deliver(f, {"hello"}, {"hello"}, "alice")
    /\ UNCHANGED <<deletedIds, leftover>>

Next == DoRead \/ DoSearch \/ DoMark \/ DoDelete \/ DoSend \/ DoDeliver \/ Forget

Spec == Init /\ [][Next]_vars

\* delete_emails and read_emails, with the ids kept that a successful delete
\* was given and that named a message
HistDelete ==
    /\ Idle
    /\ \E ids \in ListsUpTo(Ids, MaxIds), f \in Folders, o \in DeleteOutcomes :
          /\ DeleteEmails(ids, f, o[1], o[2], o[3])
          /\ deletedIds' = IF o[1] = "none"
                           THEN [deletedIds EXCEPT ![f] =
                                    @ \cup (Range(ids) \cap (1..Len(server[f])))]
                           ELSE deletedIds
    /\ UNCHANGED leftover

HistRead ==
    /\ Idle
    /\ \E f \in Folders, o \in ReadOutcomes :
          ReadEmails(f, DefaultLimit, FALSE, None, o[1], o[2], o[3])
    /\ UNCHANGED <<deletedIds, leftover>>

NextHist == HistDelete \/ HistRead \/ DoDeliver \/ Forget

SpecHist == Init /\ [][NextHist]_vars

\* search_emails over mailboxes of every content
SearchDeliver ==
    /\ Idle
    /\ \E subject \in Texts, body \in Texts, from \in Senders :
          Deliver("INBOX", subject, body, from)
    /\ UNCHANGED <<deletedIds, leftover>>

SearchAny ==
    /\ Idle
    /\ \E s \in BOOLEAN, b \in BOOLEAN,
          from \in {None, Some("")} \cup {Some(a) : a \in Senders},
          o \in ReadOutcomes :
          SearchEmails("invoice", "INBOX", s, b, from, o[1], o[2], o[3])
    /\ UNCHANGED <<deletedIds, leftover>>

NextSearch == SearchDeliver \/ SearchAny \/ Forget

SpecSearch == Init /\ [][NextSearch]_vars

\* send_email with every cc and bcc list
SendAny ==
    /\ Idle
    /\ \E to \in Addresses, cc \in OptLists, bcc \in OptLists, html \in BOOLEAN,
          fail \in SendOutcomes :
          SendEmail(to, "hello", "hello", cc, bcc, html, fail)
    /\ UNCHANGED <<deletedIds, leftover>>

NextSend == SendAny \/ Forget

SpecSend == Init /\ [][NextSend]_vars

\* _get_email_body on every message
DecodeAny ==
    /\ Idle
    /\ \E msg \in Messages : Decode(msg)
    /\ UNCHANGED <<deletedIds, leftover>>

NextBody == DecodeAny \/ Forget

SpecBody == Init /\ [][NextBody]_vars

(* ------------------------------- claims ------------------------------- *)

MailOps == {"send", "read", "search", "mark", "delete"}

\* the value of an Optional list as a set
OptSet(o) == IF o = None THEN {} ELSE Range(o[1])

\* C1: every session a mail operation opens is released before the call
\* returns, wherever the call fails: a returned call has left no session open.
C1_SessionsReleased == last.op \in MailOps => last.open = 0

\* C2: no mail operation lets an exception reach its caller; a call that failed
\* at any step returns false (send, mark_as_read, delete_emails) or the empty
\* list (read_emails, search_emails), a rejected SMTP login included.
C2_NeverRaises ==
    last.op \in MailOps =>
        /\ ~last.raised
        /\ last.fail # "none" => (~last.ok /\ last.emails = <<>>)

C2_AuthRejected ==
    /\ last.op = "send"
    /\ last.fail = "login"
    /\ last.exc = "auth"
    /\ ~last.ok
    /\ ~last.raised

\* C3: read_emails(limit=N) returns at most N messages, for every N >= 0.
C3_AtMostLimit == last.op = "read" => Len(last.emails) <= last.limit

\* C4: once delete_emails([id1]) on a folder has returned, no later
\* read_emails on that folder returns a message whose id is id1.
C4_DeletedIdGone ==
    last.op = "read" =>
        \A i \in 1..Len(last.emails) : last.emails[i].id \notin deletedIds[last.folder]

AllUnseenIn(emails, box) ==
    \A i \in 1..Len(emails) :
        \E j \in 1..Len(box) : box[j].uid = emails[i].uid /\ ~box[j].seen

ReachedSearch(c) == c.op = "read" /\ c.fail \notin {"connect", "login", "select"}

\* C6 as stated: whenever search_criteria is passed it is the filter sent,
\* whatever unread_only is; otherwise unread_only selects only messages unseen
\* when the call was made; otherwise every message is a candidate.
C6_PassedFilterWins ==
    [][(Idle /\ ReachedSearch(last')) =>
          LET c == last'
              box == server[c.folder]
          IN  /\ c.raw # None => c.criteria = c.raw[1]
              /\ (c.raw = None /\ c.unread) =>
                    (c.criteria = <<"UNSEEN">> /\ AllUnseenIn(c.emails, box))
              /\ (c.raw = None /\ ~c.unread) => c.criteria = <<"ALL">>]_vars

\* C6 as amended: a passed search_criteria that is not the empty string is the
\* filter sent, whatever unread_only is; otherwise (none passed, or the empty
\* string) unread_only selects only messages unseen when the call was made;
\* otherwise every message of the folder is a candidate.
C6_NonEmptyFilterWins ==
    [][(Idle /\ ReachedSearch(last')) =>
          LET c == last'
              box == server[c.folder]
              passed == c.raw # None /\ c.raw[1] # <<>>
          IN  /\ passed => c.criteria = c.raw[1]
              /\ (~passed /\ c.unread) =>
                    (c.criteria = <<"UNSEEN">> /\ AllUnseenIn(c.emails, box))
              /\ (~passed /\ ~c.unread) =>
                    /\ c.criteria = <<"ALL">>
                    /\ (c.fail = "none" /\ c.limit >= Len(box)) =>
                          {c.emails[i].uid : i \in 1..Len(c.emails)} = Uids(box)]_vars

C6_FilterOverUnread ==
    /\ last.op = "read"
    /\ last.fail = "none"
    /\ last.unread
    /\ last.raw = Some(<<"SEEN">>)
    /\ last.criteria = <<"SEEN">>
    /\ last.emails # <<>>

\* does message m match the search's conditions (keyword in subject, keyword
\* in body, sender), taken one by one
MatchesSubject(m, c) == c.keyword \in m.subject
MatchesBody(m, c) == c.keyword \in m.body
MatchesSender(m, c) == c.from_address # None /\ m.from = c.from_address[1]

SenderActive(c) == c.from_address # None /\ c.from_address[1] # ""

ActiveCount(c) ==
    (IF c.in_subject THEN 1 ELSE 0) + (IF c.in_body THEN 1 ELSE 0)
        + (IF SenderActive(c) THEN 1 ELSE 0)

MatchesSomeActive(m, c) ==
    \/ c.in_subject /\ MatchesSubject(m, c)
    \/ c.in_body /\ MatchesBody(m, c)
    \/ SenderActive(c) /\ MatchesSender(m, c)

\* C7: search_emails returns only messages that satisfy the OR of its active
\* conditions, and with two or three conditions active the candidates are
\* exactly the messages that match at least one of them (the folder holds
\* fewer messages than the limit, so every candidate is returned).
C7_OrOfActive ==
    (last.op = "search" /\ last.fail = "none" /\ ActiveCount(last) >= 1) =>
        LET box == server[last.folder]
            returned == {last.emails[i].uid : i \in 1..Len(last.emails)}
            matching == {box[j].uid : j \in {n \in 1..Len(box) :
                                              MatchesSomeActive(box[n], last)}}
        IN  /\ returned \subseteq matching
            /\ ActiveCount(last) >= 2 => returned = matching

IsPlainText(p) == p.ctype = "text/plain" /\ ~HasAttachment(p.disp)
IsHtml(p) == p.ctype = "text/html"

\* the first plain-text part that is no attachment, 0 when there is none
FirstPlain(parts) ==
    IF \E i \in 1..Len(parts) : IsPlainText(parts[i])
    THEN CHOOSE i \in 1..Len(parts) :
            IsPlainText(parts[i]) /\ \A j \in 1..(i - 1) : ~IsPlainText(parts[j])
    ELSE 0

\* the first HTML part, 0 when there is none
FirstHtml(parts) ==
    IF \E i \in 1..Len(parts) : IsHtml(parts[i])
    THEN CHOOSE i \in 1..Len(parts) :
            IsHtml(parts[i]) /\ \A j \in 1..(i - 1) : ~IsHtml(parts[j])
    ELSE 0

\* C8: the body of a multipart message is the content of its first plain-text
\* part that is no attachment, wherever that part is; when there is none, it
\* is the content of its first HTML part with the tags removed, whatever
\* parts follow (both up to the surrounding whitespace, which is trimmed).
C8_FirstPlainElseFirstHtml ==
    (last.op = "decode" /\ last.msg.multipart) =>
        LET parts == last.msg.parts
            plain == FirstPlain(parts)
            html == FirstHtml(parts)
        IN  /\ plain # 0 => last.body = PyStrip(parts[plain].payload)
            /\ (plain = 0 /\ html # 0) =>
                  last.body = PyStrip(StripTags(parts[html].payload))

\* C9: a successful delete_emails(ids, folder) removes from the folder exactly
\* the messages ids name and those already flagged \Deleted; every other
\* message of the folder stays, in order and with its flags, and the other
\* folders are untouched.
C9_DeleteFrame ==
    [][(Idle /\ last'.op = "delete" /\ last'.ok) =>
          LET f == last'.folder
              box == server[f]
              named == {box[i].uid : i \in Range(last'.ids) \cap (1..Len(box))}
              flagged == {box[i].uid : i \in {j \in 1..Len(box) : box[j].deleted}}
          IN  /\ server'[f] = Without(box, named \cup flagged)
              /\ \A g \in Folders \ {f} : server'[g] = server[g]]_vars

\* a successful delete_emails([1]) has removed the first of two messages and
\* left the second, which is now message 1
C9_DeletedOneKeptOne ==
    /\ last.op = "delete"
    /\ last.ok
    /\ last.ids = <<1>>
    /\ last.folder = "INBOX"
    /\ Len(server["INBOX"]) = 1
    /\ server["INBOX"][1].uid = 2
    /\ ~server["INBOX"][1].deleted

\* the first k-1 ids of the call carry the flag in box
SeenKept(box, ids, k) ==
    \A j \in 1..(k - 1) : ids[j] \in 1..Len(box) => box[ids[j]].seen

DeletedKept(box, ids, k) ==
    \A j \in 1..(k - 1) : ids[j] \in 1..Len(box) => box[ids[j]].deleted

SameMessages(a, b) == Len(a) = Len(b) /\ \A i \in 1..Len(a) : a[i].uid = b[i].uid

\* C10: a mark_as_read or delete_emails that fails on the k-th id of its loop
\* returns false and leaves the flags it set on the first k-1 ids; the failed
\* call purges nothing; and after the next successful delete_emails on the
\* folder, whatever ids it names, no message a failed delete_emails left
\* flagged remains in the folder.
C10_PartialFailure ==
    [][/\ (Idle /\ last'.op \in {"mark", "delete"} /\ last'.fail = "store") =>
            LET c == last'
                box == server'[c.folder]
            IN  /\ ~c.ok
                /\ SameMessages(server[c.folder], box)
                /\ c.op = "mark" => SeenKept(box, c.ids, c.k)
                /\ c.op = "delete" => DeletedKept(box, c.ids, c.k)
       /\ (Idle /\ last'.op = "delete" /\ last'.ok) =>
            leftover' \cap Uids(server'[last'.folder]) = {}]_vars

\* message 1, left flagged by a delete_emails that failed in its loop, is gone
\* after a successful delete_emails([2])
C10_LeftoverPurged ==
    /\ last.op = "delete"
    /\ last.ok
    /\ last.ids = <<2>>
    /\ last.folder = "INBOX"
    /\ leftover = {1}
    /\ nextUid = 3
    /\ server = [f \in Folders |-> <<>>]

====
